---------------------------- MODULE Spec2Model ----------------------------
(***************************************************************************)
(* Model of the Stock Picks Monitor back end (database.py), the Drive      *)
(* sync helper (drive_utils.py, config.py) and the Database Explorer       *)
(* (app.py).                                                               *)
(*                                                                         *)
(* Conventions.                                                            *)
(*   - A timestamp is a natural number of ticks; one day is TicksPerDay    *)
(*     ticks, so a timestamp at midnight is a multiple of TicksPerDay.     *)
(*   - Python's None / pandas' NaT / a SQL NULL is the empty tuple <<>>;   *)
(*     a present value x of an optional is <<x>>.                          *)
(*   - A pandas float is NaN (<<>>) or an exact rational <<n, d>> with     *)
(*     d > 0 in lowest terms.                                              *)
(*   - A Python str built by an f-string is a sequence of pieces; every    *)
(*     character that comes from user input is a piece of its own, and so  *)
(*     is every single quote and every blank of the fixed text.            *)
(***************************************************************************)
EXTENDS Integers, Sequences, FiniteSets, TLC

VARIABLES
    localFile,      \* content of config.DB_PATH (stockinfocus.db) on disk
    vni_map,        \* DatabaseManager.vni_map   (dict: date -> close)
    vni_dates,      \* DatabaseManager.vni_dates (list of dates)
    now,            \* the wall clock read by pd.Timestamp.now()
    target,         \* argument of the last get_nearest_vni call (<<>>: none yet)
    result,         \* what that call returned (<<>> is None)
    df,             \* the dataframe get_all_stocks returned / the caller holds
    summary,        \* the dataframe get_yearly_summary returned
    raised,         \* the exception the last DatabaseManager call let out
    connections,    \* SQLite connections opened and not closed
    secrets,        \* st.secrets: "present", "absent" or "raises" when read
    credFile,       \* whether the credentials JSON file exists
    creds_info,     \* get_drive_service's creds_info (<<>>: no call yet)
    configFileId,   \* config.DRIVE_FILE_ID (<<>>: not set)
    remote,         \* content of the database file kept on Drive
    nChunks,        \* number of chunks the download of it takes
    pc,             \* position of check_and_update_db
    file_id,        \* its local file_id
    exc,            \* the exception being propagated (<<>>: none)
    ret,            \* the pair it returned (<<>>: not returned)
    done,           \* download_file_from_drive's local done
    fh,             \* chunks held by its buffer fh
    fileOpen,       \* whether it holds local_path open for writing
    fileAtStart,    \* content of the local file when the call started
    downloadComplete, \* whether download_file_from_drive reached its end
    DB_SERVER,      \* os.getenv("DB_SERVER")   (<<>>: not set)
    DB_USERNAME,    \* os.getenv("DB_USERNAME")
    DB_PASSWORD,    \* os.getenv("DB_PASSWORD")
    database_name,  \* argument of the last get_db_connection call
    connected,      \* whether that call reached pyodbc.connect
    connRet,        \* the pair it returned (<<>>: no call yet)
    saved_queries,  \* st.session_state.saved_queries
    query_text,     \* st.session_state['query_text']
    query,          \* content of the "SQL Query" text area
    nameShown,      \* whether the page shows the "Query Name" input
    filters,        \* the Advanced Filters widgets: one record per condition
    where_clauses,  \* the list the last run of the tab assembled
    filter_query    \* the SQL text that run executed (<<>>: none)

dbVars ==
    <<localFile, vni_map, vni_dates, now, target, result, df, summary, raised,
      connections>>

driveVars ==
    <<secrets, credFile, creds_info, configFileId, remote, nChunks, pc,
      file_id, exc, ret,
      done, fh, fileOpen, fileAtStart, downloadComplete>>

connVars ==
    <<DB_SERVER, DB_USERNAME, DB_PASSWORD, database_name, connected, connRet>>

sessionVars == <<saved_queries, query_text, query, nameShown>>

filterVars == <<filters, where_clauses, filter_query>>

appVars == <<connVars, sessionVars, filterVars>>

vars == <<dbVars, driveVars, appVars>>

-----------------------------------------------------------------------------
(* Bounds of the model *)

MaxDay == 2             \* days 0 .. MaxDay
TicksPerDay == 2        \* resolution of the time of day
DaysPerYear == 2        \* calendar years are DaysPerYear days long
MaxIndexRows == 2       \* rows of the VNINDEX table
MaxStockRows == 2       \* rows of the StockInFocus table
MaxSummaryRows == 3     \* rows of a dataframe handed to get_yearly_summary
MaxChunks == 2          \* chunks of a Drive download
MaxLen == 2             \* characters of a filter value
ShownFilters == 2       \* filter conditions on the page (of at most MaxFilters)

Days == 0 .. MaxDay
Ticks == 0 .. ((MaxDay + 1) * TicksPerDay - 1)
Midnights == {d * TicksPerDay : d \in Days}
CloseVals == {1, 2}     \* index close prices found in the VNINDEX table
\* <<Price_At_Call, LastPrice>> of a position: one that gained, one that lost
PricePairs == {<<1, 2>>, <<2, 1>>}

-----------------------------------------------------------------------------
(* Python / pandas primitives *)

None == <<>>
Some(x) == <<x>>
NaT == <<>>
NaN == <<>>

\* Timestamp.normalize() / Series.dt.normalize(): drop the time of day.
normalize(t) == t - (t % TicksPerDay)

\* Series.dt.year
year(t) == (t \div TicksPerDay) \div DaysPerYear

Abs(n) == IF n < 0 THEN -n ELSE n

RECURSIVE Gcd(_, _)
Gcd(a, b) == IF b = 0 THEN a ELSE Gcd(b, a % b)

\* The float n/d (d # 0) in lowest terms with a positive denominator.
Rat(n, d) ==
    LET g == Gcd(Abs(n), Abs(d))
        s == IF d < 0 THEN -1 ELSE 1
    IN  <<(s * n) \div g, (s * d) \div g>>

FromInt(n) == <<n, 1>>

\* float - float and float / float of pandas columns (NaN propagates).
FSub(x, y) ==
    IF x = NaN \/ y = NaN THEN NaN
    ELSE Rat(x[1] * y[2] - y[1] * x[2], x[2] * y[2])

FDiv(x, y) ==
    IF x = NaN \/ y = NaN THEN NaN
    ELSE Rat(x[1] * y[2], x[2] * y[1])

SetMin(S) == CHOOSE x \in S : \A y \in S : x <= y
SetMax(S) == CHOOSE x \in S : \A y \in S : y <= x

\* sorted(S): the ascending list of the elements of a set of integers.
RECURSIVE sorted(_)
sorted(S) == IF S = {} THEN <<>> ELSE <<SetMin(S)>> \o sorted(S \ {SetMin(S)})

\* sorted(S, reverse=True)
RECURSIVE sorted_reverse(_)
sorted_reverse(S) ==
    IF S = {} THEN <<>> ELSE <<SetMax(S)>> \o sorted_reverse(S \ {SetMax(S)})

\* bisect.bisect_right(a, x), as the standard library computes it.
RECURSIVE bisect_loop(_, _, _, _)
bisect_loop(a, x, lo, hi) ==
    IF lo < hi
    THEN LET mid == (lo + hi) \div 2
         IN  IF x < a[mid + 1]               \* a[mid], lists here are 1-based
             THEN bisect_loop(a, x, lo, mid)
             ELSE bisect_loop(a, x, mid + 1, hi)
    ELSE lo

bisect_right(a, x) == bisect_loop(a, x, 0, Len(a))

-----------------------------------------------------------------------------
(* The database file *)

\* A VNINDEX row is <<Date, Close>>; the query returns them ORDER BY Date.
IndexRows == Ticks \X CloseVals

IsOrderedByDate(t) == \A i \in 1 .. Len(t) - 1 : t[i][1] <= t[i + 1][1]

SeqsUpTo(S, n) == UNION {[1 .. k -> S] : k \in 0 .. n}

IndexTables == {t \in SeqsUpTo(IndexRows, MaxIndexRows) : IsOrderedByDate(t)}

\* A file that SQLite cannot read the tables from (missing, truncated, ...).
BrokenFile ==
    [opens |-> TRUE, valid |-> FALSE, index |-> <<>>, stocks |-> <<>>]

\* A path that sqlite3.connect cannot open at all (no permission, a directory).
LockedFile ==
    [opens |-> FALSE, valid |-> FALSE, index |-> <<>>, stocks |-> <<>>]

DbFile(index, stocks) ==
    [opens |-> TRUE, valid |-> TRUE, index |-> index, stocks |-> stocks]

\* Line 14: sqlite3.connect(self.db_path) hands back a connection or raises.
ConnectFailed == "OperationalError: unable to open database file"

get_connection(file) == IF file.opens THEN None ELSE Some(ConnectFailed)

-----------------------------------------------------------------------------
(* DatabaseManager.load_vnindex *)

\* dict(zip(df['Date'], df['Close'])) after the dates were normalized: a later
\* row of the same day replaces an earlier one.
ZipDict(rows) ==
    LET keys == {normalize(rows[i][1]) : i \in 1 .. Len(rows)}
        last(k) == SetMax({i \in 1 .. Len(rows) : normalize(rows[i][1]) = k})
    IN  [k \in keys |-> rows[last(k)][2]]

loaded_map_or_empty(file, map) ==
    IF file.valid THEN ZipDict(file.index) ELSE <<>>

\* The map and the date list load_vnindex leaves behind: on an exception in
\* the try block both keep their old values.
LoadedMap(file, map) == IF file.valid THEN ZipDict(file.index) ELSE map

LoadedDates(file, map, dates) ==
    IF file.valid THEN sorted(DOMAIN LoadedMap(file, map)) ELSE dates

\* Line 20 stands before the try block: what load_vnindex lets out.
load_raises(file) == get_connection(file)

\* Lines 29-30: connections the call leaves open.
load_leaves_open(file) == 0

load_vnindex ==
    /\ vni_map' = LoadedMap(localFile, vni_map)
    /\ vni_dates' = LoadedDates(localFile, vni_map, vni_dates)
    /\ raised' = load_raises(localFile)
    /\ connections' =
           IF load_raises(localFile) = None
               THEN connections + load_leaves_open(localFile)
               ELSE connections
    /\ UNCHANGED <<localFile, now, target, result, df, summary>>
    /\ UNCHANGED <<driveVars, appVars>>

-----------------------------------------------------------------------------
(* DatabaseManager.get_nearest_vni *)

\* Lines 40-56, on the map and list in memory.
nearest_fwd(map, dates, t) ==
    IF t \in DOMAIN map THEN Some(map[t])
    ELSE LET idx == bisect_right(dates, t)
         IN  IF idx < Len(dates) THEN Some(map[dates[idx + 1]]) ELSE None

nearest(map, dates, t) ==
    IF t \in DOMAIN map THEN Some(map[t])
    ELSE LET idx == bisect_right(dates, t)
         IN  IF idx > 0 THEN Some(map[dates[idx]]) ELSE None   \* dates[idx - 1]

\* The same on an optional timestamp: NaT is no key of the map and no list
\* element compares greater than it, so bisect_right answers len(vni_dates).
nearest_opt(map, dates, t) ==
    IF t # NaT THEN nearest(map, dates, t[1])
    ELSE IF Len(dates) > 0 THEN Some(map[dates[Len(dates)]]) ELSE None

map_always_loaded(file, map) == LoadedMap(file, map)

\* Lines 37-38: the load happens only while the map is empty.
MapAtLookup(file, map) == IF DOMAIN map = {} THEN LoadedMap(file, map) ELSE map

DatesAtLookup(file, map, dates) ==
    IF DOMAIN map = {} THEN LoadedDates(file, map, dates) ELSE dates

\* Lines 37-38: the exception of the load, when there is one, ends the call.
lookup_raises(file, map) ==
    IF DOMAIN map = {} THEN load_raises(file) ELSE None

get_nearest_vni(t) ==
    /\ vni_map' = MapAtLookup(localFile, vni_map)
    /\ vni_dates' = DatesAtLookup(localFile, vni_map, vni_dates)
    /\ raised' = lookup_raises(localFile, vni_map)
    /\ IF lookup_raises(localFile, vni_map) = None
           THEN /\ target' = Some(t)
                /\ result' = nearest(vni_map', vni_dates', t)
           ELSE UNCHANGED <<target, result>>
    /\ connections' =
           IF DOMAIN vni_map = {} /\ load_raises(localFile) = None
               THEN connections + load_leaves_open(localFile)
               ELSE connections
    /\ UNCHANGED <<localFile, now, df, summary>>
    /\ UNCHANGED <<driveVars, appVars>>

-----------------------------------------------------------------------------
(* DatabaseManager.get_all_stocks *)

\* The columns of a StockInFocus row that the computation reads.  Pick_Date
\* is stored as a date; Action_Date is NULL or a date with a time of day.
ActionTicks == {TicksPerDay + (TicksPerDay - 1)}

StockRows ==
    {[Pick_Date |-> d, Price_At_Call |-> p[1], LastPrice |-> p[2],
      IsClosed |-> c, Action_Date |-> a] :
        d \in Midnights, p \in PricePairs, c \in {0, 1},
        a \in {NaT} \cup {Some(t) : t \in ActionTicks}}

\* ORDER BY Pick_Date DESC
IsOrderedByPickDesc(t) ==
    \A i \in 1 .. Len(t) - 1 : t[i].Pick_Date >= t[i + 1].Pick_Date

StockTables ==
    {t \in SeqsUpTo(StockRows, MaxStockRows) : IsOrderedByPickDesc(t)}

\* Line 83: pd.to_datetime(..., errors='coerce').dt.normalize()
ActionDate(raw) == IF raw = NaT THEN NaT ELSE Some(normalize(raw[1]))

\* Lines 91-94
calc_date_closed_only(IsClosed, Action_Date, today) ==
    IF IsClosed = 1 THEN Action_Date ELSE Some(today)

get_calc_date(IsClosed, Action_Date, today) ==
    IF IsClosed = 1 /\ Action_Date # NaT THEN Action_Date ELSE Some(today)

\* Line 100
stock_ret_no_base(LastPrice, Price_At_Call) ==
    FSub(FromInt(LastPrice), FromInt(Price_At_Call))

stock_ret(LastPrice, Price_At_Call) ==
    FDiv(FSub(FromInt(LastPrice), FromInt(Price_At_Call)), FromInt(Price_At_Call))

vni_ret_filled(VNI_Close, VNI_Pick) ==
    IF VNI_Close = NaN \/ VNI_Pick = NaN
        THEN FromInt(0)
        ELSE FDiv(FSub(VNI_Close, VNI_Pick), VNI_Pick)

\* Lines 110 and 113
vni_ret(VNI_Close, VNI_Pick) == FDiv(FSub(VNI_Close, VNI_Pick), VNI_Pick)

alpha_swapped(Stock_Ret, VNI_Ret) == FSub(VNI_Ret, Stock_Ret)

alpha(Stock_Ret, VNI_Ret) == FSub(Stock_Ret, VNI_Ret)

\* Lines 115-119
get_rating_nonneg(a) ==
    IF a = NaN THEN "N/A"
    ELSE IF a[1] >= 0 THEN "Outperform"
    ELSE IF a[1] < 0 THEN "Underperform"
    ELSE "Neutral"

get_rating(a) ==
    IF a = NaN THEN "N/A"
    ELSE IF a[1] > 0 THEN "Outperform"
    ELSE IF a[1] < 0 THEN "Underperform"
    ELSE "Neutral"

\* Series.apply(self.get_nearest_vni) hands back a float column, in which None
\* has become NaN, unless every value is None: then the column holds objects,
\* and the arithmetic of lines 110 and 113, which pandas carries out on the
\* values present only, gives NaN in every row as well.
ToFloat(v) == IF v = None THEN NaN ELSE FromInt(v[1])

\* Lines 76-123 on the rows read, with the index as line 62 left it.  The
\* result is the empty dataframe when the block raises because the table
\* cannot be read.
StocksFrame(file, map0, dates0, today) ==
    LET rows == file.stocks
        n == Len(rows)
        map1 == LoadedMap(file, map0)
        dates1 == LoadedDates(file, map0, dates0)
        map == MapAtLookup(file, map1)
        dates == DatesAtLookup(file, map1, dates1)
        pick(i) == normalize(rows[i].Pick_Date)
        action(i) == ActionDate(rows[i].Action_Date)
        calc(i) == get_calc_date(rows[i].IsClosed, action(i), today)
        picks == [i \in 1 .. n |-> nearest(map, dates, pick(i))]
        closes == [i \in 1 .. n |-> nearest_opt(map, dates, calc(i))]
        row(i) ==
            LET sr == stock_ret(rows[i].LastPrice, rows[i].Price_At_Call)
                vr == vni_ret(ToFloat(closes[i]), ToFloat(picks[i]))
                al == alpha(sr, vr)
            IN  [Pick_Date |-> pick(i),
                 Price_At_Call |-> rows[i].Price_At_Call,
                 LastPrice |-> rows[i].LastPrice,
                 IsClosed |-> rows[i].IsClosed,
                 Action_Date |-> action(i),
                 Calc_Close_Date |-> calc(i),
                 Stock_Ret |-> sr,
                 VNI_Pick |-> ToFloat(picks[i]),
                 VNI_Close |-> ToFloat(closes[i]),
                 VNI_Ret |-> vr,
                 Alpha |-> al,
                 Rating |-> get_rating(al)]
    IN  IF ~file.valid
        THEN <<>>
        ELSE [i \in 1 .. n |-> row(i)]

\* Lines 62-63 stand before the try block; lines 130-131 close the
\* connection of line 63, as load_vnindex closed its own.
get_all_stocks ==
    /\ vni_map' = LoadedMap(localFile, vni_map)
    /\ vni_dates' = LoadedDates(localFile, vni_map, vni_dates)
    /\ raised' = load_raises(localFile)
    /\ IF load_raises(localFile) = None
           THEN /\ df' = StocksFrame(localFile, vni_map, vni_dates,
                                     normalize(now))
                /\ connections' = connections + load_leaves_open(localFile)
           ELSE UNCHANGED <<df, connections>>
    /\ UNCHANGED <<localFile, now, target, result, summary>>
    /\ UNCHANGED <<driveVars, appVars>>

-----------------------------------------------------------------------------
(* DatabaseManager.get_yearly_summary *)

FAdd(x, y) == Rat(x[1] * y[2] + y[1] * x[2], x[2] * y[2])

RECURSIVE FSum(_)
FSum(col) == IF col = <<>> THEN FromInt(0) ELSE FAdd(Head(col), FSum(Tail(col)))

\* Series.mean(): the mean of the values that are not NaN, NaN if none is.
mean(col) ==
    LET present == SelectSeq(col, LAMBDA x : x # NaN)
    IN  IF present = <<>> THEN NaN
        ELSE FDiv(FSum(present), FromInt(Len(present)))

Column(frame, name) == [i \in 1 .. Len(frame) |-> frame[i][name]]

\* Lines 146-150.  f"{pct:.1f}" prints pct rounded to tenths.
format_pct_count(series, target_rating, total_count) ==
    LET count == Len(SelectSeq(series, LAMBDA r : r = target_rating))
        tenths == (2 * 1000 * count + total_count) \div (2 * total_count)
    IN  IF total_count = 0 THEN "0% (0/0)"
        ELSE ToString(tenths \div 10) \o "." \o ToString(tenths % 10) \o "% ("
             \o ToString(count) \o "/" \o ToString(total_count) \o ")"

SummaryRow(label, frame) ==
    [Year |-> label,
     Total_Calls |-> Len(frame),
     Avg_Return |-> mean(Column(frame, "Stock_Ret")),
     Avg_Alpha |-> mean(Column(frame, "Alpha")),
     Pct_Outperform |->
         format_pct_count(Column(frame, "Rating"), "Outperform", Len(frame)),
     Pct_Underperform |->
         format_pct_count(Column(frame, "Rating"), "Underperform", Len(frame))]

\* Line 153
years_in_frame_order(frame) ==
    LET RECURSIVE firsts(_)
        firsts(i) ==
            IF i > Len(frame) THEN <<>>
            ELSE IF \E j \in 1 .. i - 1 :
                        year(frame[j].Pick_Date) = year(frame[i].Pick_Date)
                 THEN firsts(i + 1)
                 ELSE <<year(frame[i].Pick_Date)>> \o firsts(i + 1)
    IN  firsts(1)

years_of(frame) ==
    sorted_reverse({year(frame[i].Pick_Date) : i \in 1 .. Len(frame)})

\* Line 143 on a dataframe: every row gets the Year column.
with_year(frame) ==
    [i \in 1 .. Len(frame) |->
        [c \in DOMAIN frame[i] \cup {"Year"} |->
            IF c = "Year" THEN year(frame[i].Pick_Date) ELSE frame[i][c]]]

working_frame_alias == "argument"

\* Line 142: from here on the local name df is bound to a copy, an object of
\* its own, and no longer to the object the caller passed.
working_frame == "copy"

\* The caller's dataframe once the call is over: line 143 writes to the object
\* the local name is bound to, and line 139 returns before it.
argument_after(frame) ==
    IF frame = <<>>
        THEN frame
        ELSE IF working_frame = "argument" THEN with_year(frame) ELSE frame

\* Lines 138-180
yearly_summary(frame) ==
    LET years == years_of(frame)
        year_df(y) == SelectSeq(frame, LAMBDA r : year(r.Pick_Date) = y)
    IN  IF frame = <<>> THEN <<>>
        ELSE [k \in 1 .. Len(years) |->
                 SummaryRow(ToString(years[k]), year_df(years[k]))]
             \o <<SummaryRow("Total", frame)>>

get_yearly_summary ==
    /\ summary' = yearly_summary(df)
    /\ df' = argument_after(df)
    /\ UNCHANGED <<localFile, vni_map, vni_dates, now, target, result, raised,
                   connections>>
    /\ UNCHANGED <<driveVars, appVars>>

-----------------------------------------------------------------------------
(* Specifications of the Stock Picks Monitor back end *)

LastTick == (MaxDay + 1) * TicksPerDay - 1

\* No sync under way, in an environment without credentials.
QuietDrive ==
    /\ secrets = "absent"
    /\ credFile = FALSE
    /\ creds_info = <<>>
    /\ configFileId = None
    /\ remote = BrokenFile
    /\ nChunks = 1
    /\ pc = "idle"
    /\ file_id = None
    /\ exc = None
    /\ ret = None
    /\ done = FALSE
    /\ fh = 0
    /\ fileOpen = FALSE
    /\ fileAtStart = localFile
    /\ downloadComplete = FALSE

DefaultQuery == "SELECT TOP 100 * FROM [dbo].[table_name]"

\* The Database Explorer before its first interaction, without environment.
QuietConn ==
    /\ DB_SERVER = None
    /\ DB_USERNAME = None
    /\ DB_PASSWORD = None
    /\ database_name = None
    /\ connected = FALSE
    /\ connRet = None

\* Lines 21-23 and 514-515: the session state of a new session.
QuietSession ==
    /\ saved_queries = <<>>
    /\ query_text = DefaultQuery
    /\ query = DefaultQuery
    /\ nameShown = FALSE

\* Lines 710-731: one condition, nothing typed into it.
QuietFilters ==
    /\ filters = << [column |-> "amount", operator |-> "=", value |-> <<>>,
                    logic |-> ""] >>
    /\ where_clauses = <<>>
    /\ filter_query = None

QuietApp == QuietConn /\ QuietSession /\ QuietFilters

\* DatabaseManager.__init__, and no call made yet.
InitManager ==
    /\ vni_map = <<>>
    /\ vni_dates = <<>>
    /\ now = LastTick
    /\ target = None
    /\ result = None
    /\ df = <<>>
    /\ summary = <<>>
    /\ raised = None
    /\ connections = 0

\* The index lookups, over every index table.
InitIndex ==
    /\ localFile \in {BrokenFile, LockedFile}
           \cup {DbFile(ix, <<>>) : ix \in IndexTables}
    /\ InitManager
    /\ QuietDrive
    /\ QuietApp

NextIndex ==
    \/ load_vnindex
    \/ \E t \in Ticks : get_nearest_vni(t)

SpecIndex == InitIndex /\ [][NextIndex]_vars

\* The position analytics, over every StockInFocus table and a few indexes.
IndexGallery ==
    { <<>>,
      <<<<TicksPerDay, 2>>, <<2 * TicksPerDay, 3>>>>,
      <<<<0, 2>>, <<TicksPerDay + 1, 1>>>> }

InitStocks ==
    /\ localFile \in {BrokenFile, LockedFile}
           \cup {DbFile(ix, st) : ix \in IndexGallery, st \in StockTables}
    /\ InitManager
    /\ QuietDrive
    /\ QuietApp

NextStocks ==
    \/ get_all_stocks
    \/ get_yearly_summary

SpecStocks == InitStocks /\ [][NextStocks]_vars

\* The yearly summary, over every dataframe a caller may hand in.
Performances ==
    { [Stock_Ret |-> FromInt(1), Alpha |-> NaN, Rating |-> "N/A"],
      [Stock_Ret |-> FromInt(1), Alpha |-> Rat(1, 2), Rating |-> "Outperform"],
      [Stock_Ret |-> Rat(-1, 2), Alpha |-> FromInt(-1), Rating |-> "Underperform"] }

SummaryRows ==
    {[Pick_Date |-> d, Stock_Ret |-> p.Stock_Ret, Alpha |-> p.Alpha,
      Rating |-> p.Rating] : d \in Midnights, p \in Performances}

InitSummary ==
    /\ localFile = BrokenFile
    /\ InitManager
    /\ QuietDrive
    /\ QuietApp

PassFrame ==
    /\ df = <<>>
    /\ df' \in SeqsUpTo(SummaryRows, MaxSummaryRows)
    /\ UNCHANGED <<localFile, vni_map, vni_dates, now, target, result, summary,
                   raised, connections>>
    /\ UNCHANGED <<driveVars, appVars>>

NextSummary ==
    \/ PassFrame
    \/ get_yearly_summary

SpecSummary == InitSummary /\ [][NextSummary]_vars

-----------------------------------------------------------------------------
(* Properties of the Stock Picks Monitor back end *)

IndexDatesUpTo(t) == {d \in DOMAIN vni_map : d <= t}

\* C1: with a non-empty loaded index, get_nearest_vni(target_date) returns the
\* close of the latest index date d with d <= target_date (the close of
\* target_date itself when it is an index date, otherwise that of the nearest
\* previous trading day), and nothing when every index date is after
\* target_date: never the close of a later date.
NearestVniIsLatestNotAfter ==
    (target # None /\ DOMAIN vni_map # {}) =>
        IF IndexDatesUpTo(target[1]) = {}
        THEN result = None
        ELSE result = Some(vni_map[SetMax(IndexDatesUpTo(target[1]))])

\* A lookup answered by the backward search, with a later index date of another
\* close at hand.
NearestVniSearchedBack ==
    /\ target # None
    /\ target[1] \notin DOMAIN vni_map
    /\ \E d, e \in DOMAIN vni_map :
          /\ d < target[1] /\ target[1] < e
          /\ vni_map[d] # vni_map[e]
          /\ result = Some(vni_map[d])

PickYears == {year(df[i].Pick_Date) : i \in 1 .. Len(df)}

SummaryShape(s, frame) ==
    LET Y == {year(frame[i].Pick_Date) : i \in 1 .. Len(frame)}
        n == Len(s)
        yearOf(k) == CHOOSE y \in Y : ToString(y) = s[k].Year
    IN  /\ n = Cardinality(Y) + 1
        /\ s[n].Year = "Total"
        /\ \A k \in 1 .. n - 1 : \E y \in Y : s[k].Year = ToString(y)
        /\ \A y \in Y : \E k \in 1 .. n - 1 : s[k].Year = ToString(y)
        /\ \A j, k \in 1 .. n - 1 : j < k => yearOf(j) > yearOf(k)

\* C2: get_yearly_summary on a non-empty dataframe returns one row per distinct
\* pick year, in descending year order and none twice, followed by exactly one
\* row whose Year is "Total", which is the last row.
YearlySummaryShape ==
    [][(get_yearly_summary /\ df # <<>>) => SummaryShape(summary', df)]_vars

\* A summary of three positions: two of one year, given first, and one of a
\* later year.
YearlySummaryTwoYears ==
    /\ Len(df) = 3
    /\ Len(summary) = 3
    /\ year(df[1].Pick_Date) = year(df[2].Pick_Date)
    /\ year(df[1].Pick_Date) < year(df[3].Pick_Date)

\* C12: get_yearly_summary does not modify the dataframe passed to it: when
\* the call is over the caller's dataframe has the columns and rows it had
\* before, and no Year column.
YearlySummaryLeavesArgument ==
    [][get_yearly_summary =>
          /\ df' = df
          /\ \A i \in 1 .. Len(df') : "Year" \notin DOMAIN df'[i]]_vars

\* A summary made of a dataframe of two years, which the caller still holds.
SummarizedFrameKept ==
    /\ Len(df) = 2
    /\ Len(summary) = 3
    /\ \A i \in 1 .. Len(df) :
           DOMAIN df[i] = {"Pick_Date", "Stock_Ret", "Alpha", "Rating"}

Missing(x) == x = NaN

\* x = n / d, for a float x and integers n, d with d # 0
IsQuotient(x, n, d) == ~Missing(x) /\ x[1] * d = n * x[2]

RowAnalytics(r) ==
    LET P == r.Price_At_Call
        L == r.LastPrice
        K == nearest_opt(vni_map, vni_dates, Some(r.Pick_Date))
        C == nearest_opt(vni_map, vni_dates, r.Calc_Close_Date)
    IN  /\ IsQuotient(r.Stock_Ret, L - P, P)
        /\ r.VNI_Pick = ToFloat(K)
        /\ r.VNI_Close = ToFloat(C)
        /\ IF K = None \/ C = None
           THEN Missing(r.VNI_Ret)
           ELSE IsQuotient(r.VNI_Ret, C[1] - K[1], K[1])
        /\ IF Missing(r.VNI_Ret)
           THEN Missing(r.Alpha)
           ELSE IsQuotient(r.Alpha,
                           r.Stock_Ret[1] * r.VNI_Ret[2]
                               - r.VNI_Ret[1] * r.Stock_Ret[2],
                           r.Stock_Ret[2] * r.VNI_Ret[2])
        /\ r.Rating = "Outperform" <=> (~Missing(r.Alpha) /\ r.Alpha[1] > 0)
        /\ r.Rating = "Underperform" <=> (~Missing(r.Alpha) /\ r.Alpha[1] < 0)
        /\ r.Rating = "Neutral" <=> (~Missing(r.Alpha) /\ r.Alpha[1] = 0)
        /\ r.Rating = "N/A" <=> Missing(r.Alpha)

\* C3: in the dataframe of get_all_stocks every position has
\* Stock_Ret = (LastPrice - Price_At_Call) / Price_At_Call,
\* VNI_Ret = (VNI_Close - VNI_Pick) / VNI_Pick with VNI_Pick and VNI_Close the
\* get_nearest_vni lookups of Pick_Date and of the calculation close date,
\* Alpha = Stock_Ret - VNI_Ret, and Rating "Outperform" exactly when Alpha > 0,
\* "Underperform" exactly when Alpha < 0, "Neutral" exactly when Alpha = 0 and
\* "N/A" exactly when Alpha is missing.
AlphaAndRating == \A i \in 1 .. Len(df) : RowAnalytics(df[i])

\* Two positions of one dataframe: one without a benchmark at its pick date,
\* one that trails a benchmark that moved.
AlphaMissingAndNegative ==
    \E i, j \in 1 .. Len(df) :
        /\ df[i].Rating = "N/A"
        /\ df[j].Rating = "Underperform"
        /\ df[j].VNI_Ret[1] # 0
        /\ df[j].Stock_Ret[1] # 0

-----------------------------------------------------------------------------
(* config.get_credentials_info and drive_utils.get_drive_service *)

credentials_file_first(sec, file) ==
    IF file THEN Some("credentials file")
    ELSE IF sec = "present" THEN Some("st.secrets")
    ELSE None

\* The dictionary returned, named by where it came from; None without one.
\* Reading st.secrets without a secrets file raises, which lines 30-33 catch.
get_credentials_info(sec, file) ==
    IF sec = "present" THEN Some("st.secrets")
    ELSE IF file THEN Some("credentials file")
    ELSE None

CredentialsNotFound == "Credentials not found. Check config.py or st.secrets."
InvalidCredentials == "service account info was not in the expected format"
SearchFailed == "HttpError: files.list"
ChunkFailed == "HttpError: files.get_media"
OpenFailed == "PermissionError: stockinfocus.db"
WriteFailed == "OSError: No space left on device"
NotFoundOnDrive == "File 'stockinfocus.db' not found on Drive."
UpdateSuccessful == "Update successful"

\* Where an exception raised in the body of check_and_update_db goes: every
\* statement of it stands in the try block of lines 65-79.
OnExceptionPropagate == "raised"

OnException == "except"

Raise(message) ==
    /\ exc' = Some(message)
    /\ pc' = OnException

\* Lines 13-23, called at line 66 and again at line 45.
get_drive_service(at, next) ==
    /\ pc = at
    /\ creds_info' = <<get_credentials_info(secrets, credFile)>>
    /\ \/ /\ get_credentials_info(secrets, credFile) = None
          /\ Raise(CredentialsNotFound)
       \/ /\ get_credentials_info(secrets, credFile) # None
          /\ \/ pc' = next /\ exc' = exc
             \/ Raise(InvalidCredentials)
    /\ UNCHANGED <<secrets, credFile, configFileId, remote, nChunks, file_id,
                   ret, done, fh, fileOpen, fileAtStart, downloadComplete>>
    /\ UNCHANGED <<dbVars, appVars>>

-----------------------------------------------------------------------------
(* drive_utils.check_and_update_db and download_file_from_drive *)

\* Line 65: the call begins.
start_update ==
    /\ pc \in {"idle", "returned"}
    /\ pc' = "service"
    /\ file_id' = None
    /\ exc' = None
    /\ ret' = None
    /\ done' = FALSE
    /\ fh' = 0
    /\ fileAtStart' = localFile
    /\ downloadComplete' = FALSE
    /\ UNCHANGED <<secrets, credFile, creds_info, configFileId, remote, nChunks,
                   fileOpen>>
    /\ UNCHANGED <<dbVars, appVars>>

\* Line 66
connect_drive == get_drive_service("service", "file_id")

\* Lines 67-70: the configured id, or else the search by name (lines 25-41).
resolve_file_id ==
    /\ pc = "file_id"
    /\ \/ /\ configFileId # None
          /\ file_id' = configFileId
          /\ pc' = "branch" /\ exc' = exc
       \/ /\ configFileId = None
          /\ \/ /\ file_id' \in {None, Some("id of the first match")}
                /\ pc' = "branch" /\ exc' = exc
             \/ /\ file_id' = file_id
                /\ Raise(SearchFailed)
    /\ UNCHANGED <<secrets, credFile, creds_info, configFileId, remote, nChunks,
                   ret, done,
                   fh, fileOpen, fileAtStart, downloadComplete>>
    /\ UNCHANGED <<dbVars, appVars>>

\* Lines 72-76
branch_on_file_id ==
    /\ pc = "branch"
    /\ IF file_id # None
       THEN pc' = "download" /\ ret' = ret
       ELSE pc' = "returned" /\ ret' = <<FALSE, NotFoundOnDrive>>
    /\ UNCHANGED <<secrets, credFile, creds_info, configFileId, remote, nChunks,
                   file_id,
                   exc, done, fh, fileOpen, fileAtStart, downloadComplete>>
    /\ UNCHANGED <<dbVars, appVars>>

\* Line 45
connect_drive_for_download == get_drive_service("download", "chunks")

\* Line 51: the loop is left once done is true.
LoopLeftAtOnce == TRUE

LoopLeft == done = TRUE

\* Lines 51-52: one turn of the loop.
next_chunk ==
    /\ pc = "chunks"
    /\ ~LoopLeft
    /\ \/ /\ fh' = fh + 1
          /\ done' = (fh + 1 = nChunks)
          /\ pc' = pc /\ exc' = exc
       \/ /\ Raise(ChunkFailed)
          /\ UNCHANGED <<fh, done>>
    /\ UNCHANGED <<secrets, credFile, creds_info, configFileId, remote, nChunks,
                   file_id,
                   ret, fileOpen, fileAtStart, downloadComplete>>
    /\ UNCHANGED <<dbVars, appVars>>

\* What fh.getbuffer() holds: the remote file once every chunk is in.
Buffer == IF fh = nChunks THEN remote ELSE BrokenFile

\* Line 55: open(local_path, 'wb') empties the file.
open_local_file ==
    /\ pc = "chunks"
    /\ LoopLeft
    /\ \/ /\ fileOpen' = TRUE
          /\ localFile' = BrokenFile
          /\ pc' = "write" /\ exc' = exc
       \/ /\ Raise(OpenFailed)
          /\ UNCHANGED <<fileOpen, localFile>>
    /\ UNCHANGED <<secrets, credFile, creds_info, configFileId, remote, nChunks,
                   file_id,
                   ret, done, fh, fileAtStart, downloadComplete>>
    /\ UNCHANGED <<vni_map, vni_dates, now, target, result, df, summary, raised,
                   connections>>
    /\ UNCHANGED appVars

\* Lines 56-57: the write, and the end of the with block.
write_local_file ==
    /\ pc = "write"
    /\ fileOpen' = FALSE
    /\ \/ /\ localFile' = Buffer
          /\ downloadComplete' = TRUE
          /\ pc' = "downloaded" /\ exc' = exc
       \/ /\ Raise(WriteFailed)
          /\ UNCHANGED <<localFile, downloadComplete>>
    /\ UNCHANGED <<secrets, credFile, creds_info, configFileId, remote, nChunks,
                   file_id,
                   ret, done, fh, fileAtStart>>
    /\ UNCHANGED <<vni_map, vni_dates, now, target, result, df, summary, raised,
                   connections>>
    /\ UNCHANGED appVars

\* Line 74
return_success ==
    /\ pc = "downloaded"
    /\ pc' = "returned"
    /\ ret' = <<TRUE, UpdateSuccessful>>
    /\ UNCHANGED <<secrets, credFile, creds_info, configFileId, remote, nChunks,
                   file_id,
                   exc, done, fh, fileOpen, fileAtStart, downloadComplete>>
    /\ UNCHANGED <<dbVars, appVars>>

\* Lines 78-79
except_Exception ==
    /\ pc = "except"
    /\ pc' = "returned"
    /\ ret' = <<FALSE, exc[1]>>
    /\ UNCHANGED <<secrets, credFile, creds_info, configFileId, remote, nChunks,
                   file_id,
                   exc, done, fh, fileOpen, fileAtStart, downloadComplete>>
    /\ UNCHANGED <<dbVars, appVars>>

SyncFiles == {BrokenFile} \cup {DbFile(ix, <<>>) : ix \in IndexGallery}

InitDrive ==
    /\ localFile \in SyncFiles
    /\ InitManager
    /\ secrets \in {"present", "absent", "raises"}
    /\ credFile \in BOOLEAN
    /\ creds_info = <<>>
    /\ configFileId \in {None, Some("DRIVE_FILE_ID")}
    /\ remote \in SyncFiles \ {BrokenFile}
    /\ nChunks \in 1 .. MaxChunks
    /\ pc = "idle"
    /\ file_id = None
    /\ exc = None
    /\ ret = None
    /\ done = FALSE
    /\ fh = 0
    /\ fileOpen = FALSE
    /\ fileAtStart = localFile
    /\ downloadComplete = FALSE
    /\ QuietApp

NextDrive ==
    \/ start_update
    \/ connect_drive
    \/ resolve_file_id
    \/ branch_on_file_id
    \/ connect_drive_for_download
    \/ next_chunk
    \/ open_local_file
    \/ write_local_file
    \/ return_success
    \/ except_Exception

SpecDrive == InitDrive /\ [][NextDrive]_vars

Returned == pc = "returned"

\* C5: check_and_update_db never raises: whatever the credential lookup, the
\* Drive search and the download do, it returns a pair (success, message); it
\* returns (True, "Update successful") only if download_file_from_drive ran
\* to its end, and every failure (an exception anywhere, or no file found)
\* yields (False, message).
UpdateAlwaysReturnsPair ==
    /\ pc # "raised"
    /\ Returned =>
          /\ ret # None
          /\ ret[1] \in BOOLEAN
          /\ ret[1] = TRUE => (ret[2] = UpdateSuccessful /\ downloadComplete)
          /\ (exc # None \/ file_id = None) => ret[1] = FALSE
          /\ exc # None => ret = <<FALSE, exc[1]>>

\* A call that failed at the write, after the download itself had succeeded.
UpdateFailedAtWrite == Returned /\ ret = <<FALSE, WriteFailed>>

\* C6: download_file_from_drive opens and writes the local file only after
\* the chunk loop has seen done = true; when a next_chunk call fails before
\* that, the local database file is as it was before the call.
FileWrittenOnlyWhenDone ==
    /\ (fileOpen \/ localFile # fileAtStart) => done = TRUE
    /\ (exc = Some(ChunkFailed)) => (localFile = fileAtStart /\ ~fileOpen)

\* A download of two chunks that lost the second one, over an existing database
\* that differs from the remote one.
SecondChunkFailed ==
    /\ Returned
    /\ ret = <<FALSE, ChunkFailed>>
    /\ fh = 1
    /\ localFile.valid
    /\ localFile # remote

-----------------------------------------------------------------------------
(* The index kept in memory, across calls of the DatabaseManager and       *)
(* replacements of the database file by check_and_update_db                *)

\* Two positions: an active one, and an older closed one.
CacheStocks ==
    << [Pick_Date |-> TicksPerDay, Price_At_Call |-> 1, LastPrice |-> 2,
        IsClosed |-> 0, Action_Date |-> NaT],
       [Pick_Date |-> 0, Price_At_Call |-> 2, LastPrice |-> 1,
        IsClosed |-> 1, Action_Date |-> Some(2 * TicksPerDay - 1)] >>

\* An index that begins after the older pick, and one that covers both.
LateIndex == <<<<TicksPerDay, 2>>, <<2 * TicksPerDay, 3>>>>

FullIndex == <<<<0, 2>>, <<TicksPerDay + 1, 1>>>>

CacheFiles ==
    {LockedFile, BrokenFile, DbFile(<<>>, CacheStocks),
     DbFile(LateIndex, CacheStocks)}

InitCache ==
    /\ localFile \in CacheFiles
    /\ InitManager
    /\ secrets = "present"
    /\ credFile = FALSE
    /\ creds_info = <<>>
    /\ configFileId = Some("DRIVE_FILE_ID")
    /\ remote = DbFile(FullIndex, CacheStocks)
    /\ nChunks = 1
    /\ pc = "idle"
    /\ file_id = None
    /\ exc = None
    /\ ret = None
    /\ done = FALSE
    /\ fh = 0
    /\ fileOpen = FALSE
    /\ fileAtStart = localFile
    /\ downloadComplete = FALSE
    /\ QuietApp

NextCache ==
    \/ load_vnindex
    \/ \E t \in Midnights : get_nearest_vni(t)
    \/ get_all_stocks
    \/ NextDrive

SpecCache == InitCache /\ [][NextCache]_vars

\* No date of the index is at or before t: t is earlier than every loaded
\* date, or the index is empty.
NoDateUpTo(map, t) == \A d \in DOMAIN map : d > t

PositionWithoutBenchmark(map, r) ==
    \/ NoDateUpTo(map, r.Pick_Date)
    \/ r.Calc_Close_Date # NaT /\ NoDateUpTo(map, r.Calc_Close_Date[1])

DatesAreSortedKeys ==
    /\ {vni_dates[i] : i \in 1 .. Len(vni_dates)} = DOMAIN vni_map
    /\ \A i \in 1 .. Len(vni_dates) - 1 : vni_dates[i] < vni_dates[i + 1]

\* An index of two dates still in memory, and answering, while the database
\* file is one no load can read.
IndexKeptOverBrokenFile ==
    /\ localFile = BrokenFile
    /\ Len(vni_dates) = 2
    /\ target # None
    /\ result # None

\* C15: get_nearest_vni loads the index only while vni_map is empty; with a
\* non-empty map it answers from memory and leaves map and list as they are,
\* whatever the database file holds by then; the map changes only in
\* load_vnindex, in get_all_stocks and in a lookup that found it empty, and
\* the first two always take it from a readable file.
LookupLoadsOnlyWhenEmpty ==
    [][/\ \A t \in Midnights :
              get_nearest_vni(t) =>
                  IF DOMAIN vni_map # {}
                      THEN /\ vni_map' = vni_map
                           /\ vni_dates' = vni_dates
                           /\ raised' = None
                           /\ \/ NoDateUpTo(vni_map, t) /\ result' = None
                              \/ \E d \in DOMAIN vni_map :
                                     d <= t /\ result' = Some(vni_map[d])
                      ELSE localFile.valid =>
                               vni_map' = ZipDict(localFile.index)
       /\ ((load_vnindex \/ get_all_stocks) /\ localFile.valid) =>
              vni_map' = ZipDict(localFile.index)
       /\ vni_map' # vni_map =>
              \/ load_vnindex
              \/ get_all_stocks
              \/ \E t \in Midnights :
                     get_nearest_vni(t) /\ DOMAIN vni_map = {}]_vars

\* The database file has been replaced with success, and the lookup on record
\* gave a close that the new file does not have for that date.
StaleIndexAfterReplacement ==
    /\ Returned
    /\ ret = <<TRUE, UpdateSuccessful>>
    /\ localFile = remote
    /\ DOMAIN vni_map # {}
    /\ vni_map # ZipDict(localFile.index)
    /\ target # None
    /\ result # None
    /\ target[1] \in DOMAIN ZipDict(localFile.index)
    /\ result[1] # ZipDict(localFile.index)[target[1]]

\* C16: a failed load_vnindex leaves vni_map and vni_dates exactly as they
\* were and does not raise, and the connection of a load is closed whether it
\* succeeded or failed.
FailedLoadIsSilent ==
    [][load_vnindex =>
          /\ connections' = 0
          /\ ~localFile.valid =>
                 /\ vni_map' = vni_map
                 /\ vni_dates' = vni_dates
                 /\ raised' = None]_vars

\* C11: get_credentials_info returns the gcp_service_account secrets whenever
\* they are available, falls back to the credentials JSON file only when they
\* are not (reading the secrets may also have raised), and returns None when
\* neither source exists.
CredentialsFromSecretsFirst ==
    creds_info # <<>> =>
        /\ secrets = "present" => creds_info[1] = Some("st.secrets")
        /\ creds_info[1] = Some("credentials file") <=>
               (secrets # "present" /\ credFile)
        /\ creds_info[1] = None <=> (secrets # "present" /\ ~credFile)

\* A lookup that fell back to the file because reading the secrets raised,
\* in a call that went on to the end.
FellBackAfterSecretsRaised ==
    /\ Returned
    /\ secrets = "raises"
    /\ creds_info = <<Some("credentials file")>>

-----------------------------------------------------------------------------
(* app.get_db_connection *)

\* What os.getenv may return for a name: nothing, the empty string, a value.
EnvValues(v) == {None, Some(""), Some(v)}

\* bool(x) of an optional string
Truthy(x) == x # None /\ x # Some("")

\* Line 34: not all([server, database_name, username, password])
NoneGiven(server, name, username, password) ==
    ~(Truthy(server) \/ Truthy(name) \/ Truthy(username) \/ Truthy(password))

AnyMissing(server, name, username, password) ==
    ~(Truthy(server) /\ Truthy(name) /\ Truthy(username) /\ Truthy(password))

\* str(database_name) inside the f-string of line 35
Shown(name) == IF name = None THEN "None" ELSE name[1]

\* Lines 28-43.  pyodbc.connect hands back a connection or raises pyodbc.Error.
get_db_connection(name) ==
    /\ database_name' = name
    /\ IF AnyMissing(DB_SERVER, name, DB_USERNAME, DB_PASSWORD)
       THEN /\ connected' = FALSE
            /\ connRet' =
                 <<None, Some("Missing environment variables for " \o Shown(name))>>
       ELSE /\ connected' = TRUE
            /\ \/ connRet' = <<Some("connection to " \o name[1]), None>>
               \/ connRet' = <<None, Some("pyodbc.Error: login failed")>>
    /\ UNCHANGED <<DB_SERVER, DB_USERNAME, DB_PASSWORD>>
    /\ UNCHANGED <<dbVars, driveVars, sessionVars, filterVars>>

InitConn ==
    /\ localFile = BrokenFile
    /\ InitManager
    /\ QuietDrive
    /\ QuietSession
    /\ QuietFilters
    /\ DB_SERVER \in EnvValues("sqlhost")
    /\ DB_USERNAME \in EnvValues("reader")
    /\ DB_PASSWORD \in EnvValues("secret")
    /\ database_name = None
    /\ connected = FALSE
    /\ connRet = None

NextConn == \E name \in EnvValues("DiamondDB") : get_db_connection(name)

SpecConn == InitConn /\ [][NextConn]_vars

\* C7: get_db_connection returns (None, error message) without attempting a
\* connection whenever any of server, database_name, username or password is
\* missing or empty; and of every pair it returns exactly one element is None.
ConnectionOrError ==
    connRet # None =>
        /\ (connRet[1] = None) # (connRet[2] = None)
        /\ (\E x \in {DB_SERVER, database_name, DB_USERNAME, DB_PASSWORD} :
                x \in {None, Some("")})
              => (~connected /\ connRet[1] = None /\ connRet[2] # None)

\* A call refused for an empty password alone.
RefusedForEmptyPassword ==
    /\ connRet # None
    /\ ~connected
    /\ DB_PASSWORD = Some("")
    /\ Truthy(DB_SERVER) /\ Truthy(database_name) /\ Truthy(DB_USERNAME)

-----------------------------------------------------------------------------
(* app.py, SQL Query Editor: saved queries *)

SimpleSelect == "SELECT TOP 100 * FROM [schema].[table_name]"

\* Texts a user leaves in the query area, and names given to queries.
Queries == {DefaultQuery, SimpleSelect, "SELECT 1"}
Names == {"daily", "weekly"}

\* Lines 531-535 of one script run.  save_query_btn is true only in the run
\* its click started; query_name is what the "Query Name" input holds then.
saved_after_run(saved, save_query_btn, query_name, text) ==
    IF save_query_btn /\ query_name # ""
    THEN [n \in DOMAIN saved \cup {query_name} |->
             IF n = query_name THEN text ELSE saved[n]]
    ELSE saved

\* The user edits the query area: a run in which no button is pressed, so the
\* block of line 531 is skipped and the page shows no "Query Name" input.
edit_query(q) ==
    /\ query' = q
    /\ q # query
    /\ saved_queries' = saved_after_run(saved_queries, FALSE, "", q)
    /\ nameShown' = FALSE
    /\ UNCHANGED query_text
    /\ UNCHANGED <<dbVars, driveVars, connVars, filterVars>>

\* The user clicks "Save Query".  The "Query Name" input is created by this
\* very run: it holds a name only if the page still showed it, with a name
\* typed in, when the click was sent.
click_save_query(typed) ==
    /\ typed # "" => nameShown
    /\ saved_queries' = saved_after_run(saved_queries, TRUE, typed, query)
    /\ nameShown' = TRUE
    /\ UNCHANGED <<query_text, query>>
    /\ UNCHANGED <<dbVars, driveVars, connVars, filterVars>>

\* The user types a name into "Query Name" and presses Enter: a run in which
\* save_query_btn is false again.
enter_query_name(name) ==
    /\ nameShown
    /\ saved_queries' = saved_after_run(saved_queries, FALSE, name, query)
    /\ nameShown' = FALSE
    /\ UNCHANGED <<query_text, query>>
    /\ UNCHANGED <<dbVars, driveVars, connVars, filterVars>>

\* Lines 508-511: "Load Template" with a template chosen.
load_template ==
    /\ query_text' = SimpleSelect
    /\ query' = SimpleSelect
    /\ nameShown' = FALSE
    /\ UNCHANGED saved_queries
    /\ UNCHANGED <<dbVars, driveVars, connVars, filterVars>>

\* Lines 538-544: "Load Saved Query" with a saved name chosen.
load_saved_query(name) ==
    /\ name \in DOMAIN saved_queries
    /\ query_text' = saved_queries[name]
    /\ query' = saved_queries[name]
    /\ nameShown' = FALSE
    /\ UNCHANGED saved_queries
    /\ UNCHANGED <<dbVars, driveVars, connVars, filterVars>>

InitSession ==
    /\ localFile = BrokenFile
    /\ InitManager
    /\ QuietDrive
    /\ QuietApp

NextSession ==
    \/ \E q \in Queries : edit_query(q)
    \/ \E typed \in Names \cup {""} : click_save_query(typed)
    \/ \E name \in Names : enter_query_name(name)
    \/ load_template
    \/ \E name \in Names : load_saved_query(name)

SpecSession == InitSession /\ [][NextSession]_vars

\* C8: once the user has clicked "Save Query" and entered a non-empty query
\* name, saved_queries maps that name to the current query text (and keeps the
\* entry on every later rerun of the session).
SavedAfterNameEntered ==
    [][\A name \in Names :
          enter_query_name(name) =>
              /\ name \in DOMAIN saved_queries'
              /\ saved_queries'[name] = query]_vars

-----------------------------------------------------------------------------
(* Advanced Filters tab (src/app.py, lines 684-787).                        *)
(*                                                                          *)
(* A Python string made by an f-string is the sequence of its pieces: the   *)
(* fixed text of the template in chunks, and a typed value character by     *)
(* character.  A single quote is always a piece of its own.                 *)

Quote == "'"
ValueChars == {"a", Quote, ",", " "}
FilterValues == SeqsUpTo(ValueChars, MaxLen)

\* Line 710: number_input(min_value=1, max_value=5).
MaxFilters == 5
FilterCounts == {n \in 1 .. MaxFilters : n <= ShownFilters}

\* Line 706: the columns of the selected table.
df_cols_filter ==
    << [COLUMN_NAME |-> "amount", DATA_TYPE |-> "int"],
       [COLUMN_NAME |-> "created", DATA_TYPE |-> "datetime"],
       [COLUMN_NAME |-> "ticker", DATA_TYPE |-> "varchar"] >>

ColumnNames == {df_cols_filter[i].COLUMN_NAME : i \in DOMAIN df_cols_filter}

\* Line 722.
Operators == {"=", "!=", ">", "<", ">=", "<=", "LIKE", "IN"}

\* Line 735.
col_type(filter_column) ==
    LET i == CHOOSE j \in DOMAIN df_cols_filter :
                 df_cols_filter[j].COLUMN_NAME = filter_column
    IN  df_cols_filter[i].DATA_TYPE

DateTypes ==
    {"date", "datetime", "datetime2", "smalldatetime", "datetimeoffset"}

NumericTypes ==
    {"int", "bigint", "smallint", "tinyint", "decimal", "numeric", "float",
     "real", "money", "smallmoney"}

\* Line 736.
is_date_type(t) == t \in DateTypes

is_numeric_type_never(t) == FALSE

\* Line 737.
is_numeric_type(t) == t \in NumericTypes

\* str.strip(): whitespace is removed from both ends.
RECURSIVE lstrip(_)
lstrip(s) ==
    IF s # <<>> /\ Head(s) = " " THEN lstrip(Tail(s)) ELSE s

RECURSIVE rstrip(_)
rstrip(s) ==
    IF s # <<>> /\ s[Len(s)] = " "
        THEN rstrip(SubSeq(s, 1, Len(s) - 1))
        ELSE s

strip(s) == rstrip(lstrip(s))

\* str.split(','): the pieces between the commas, empty ones included.
RECURSIVE split(_)
split(s) ==
    LET commas == {i \in DOMAIN s : s[i] = ","}
    IN  IF commas = {}
            THEN <<s>>
            ELSE LET i == SetMin(commas)
                 IN  <<SubSeq(s, 1, i - 1)>>
                         \o split(SubSeq(s, i + 1, Len(s)))

\* sep.join(list).
RECURSIVE join(_, _)
join(list, sep) ==
    IF list = <<>>
        THEN <<>>
        ELSE IF Len(list) = 1
            THEN list[1]
            ELSE list[1] \o sep \o join(Tail(list), sep)

interpolate_escaped(v) ==
    join([i \in DOMAIN v |-> IF v[i] = Quote THEN <<Quote, Quote>>
                                              ELSE <<v[i]>>], <<>>)

\* {filter_value} in an f-string: the text as it is.
interpolate(v) == v

\* Lines 743, 745, 747: one element of an IN list.
in_element(t, v) ==
    IF is_numeric_type(t)
        THEN interpolate(strip(v))
        ELSE IF is_date_type(t)
            THEN <<"CAST(", Quote>> \o interpolate(strip(v))
                     \o <<Quote, " AS DATE)">>
            ELSE <<Quote>> \o interpolate(strip(v)) \o <<Quote>>

\* Lines 742-747.
in_values(t, filter_value) ==
    LET parts == split(filter_value)
    IN  join([i \in DOMAIN parts |-> in_element(t, parts[i])], <<", ">>)

\* Lines 739-760: the clause appended for one condition.
clause(filter_column, operator, filter_value) ==
    LET t == col_type(filter_column)
        name == <<"[", filter_column, "]">>
    IN  IF operator = "LIKE"
            THEN name \o <<" ", "LIKE", " ", Quote, "%">>
                     \o interpolate(filter_value) \o <<"%", Quote>>
        ELSE IF operator = "IN"
            THEN name \o <<" ", "IN", " ", "(">>
                     \o in_values(t, filter_value) \o <<")">>
        ELSE IF is_date_type(t)
            THEN <<"CAST(">> \o name \o <<" AS DATE)", " ", operator, " ">>
                     \o <<"CAST(", Quote>> \o interpolate(filter_value)
                     \o <<Quote, " AS DATE)">>
        ELSE IF is_numeric_type(t)
            THEN name \o <<" ", operator, " ">> \o interpolate(filter_value)
        ELSE IF operator \in {"=", "!="}
            THEN name \o <<" ", operator, " ", Quote>>
                     \o interpolate(filter_value) \o <<Quote>>
        ELSE name \o <<" ", operator, " ", Quote>>
                 \o interpolate(filter_value) \o <<Quote>>

\* Lines 712-763: the loop over the conditions, from condition i on.
RECURSIVE where_from(_, _)
where_from(fs, i) ==
    IF i > Len(fs)
        THEN <<>>
        ELSE LET f == fs[i]
                 appended ==
                     IF f.value # <<>>
                         THEN <<clause(f.column, f.operator, f.value)>>
                                  \o (IF f.logic # "" /\ i < Len(fs)
                                          THEN <<<<f.logic>>>>
                                          ELSE <<>>)
                         ELSE <<>>
             IN  appended \o where_from(fs, i + 1)

where_of(fs) == where_from(fs, 1)

\* Lines 768-776.
filter_query_of(clauses) ==
    IF clauses # <<>>
        THEN <<"\n", "SELECT TOP ", "100", " *", "\n", "FROM [", "dbo", "].[",
               "t", "]", "\n", "WHERE ">> \o join(clauses, <<" ">>)
                 \o <<"\n">>
        ELSE <<"SELECT TOP ", "100", " * FROM [", "dbo", "].[", "t", "]">>

\* Lines 719-731: the widgets of one condition.  The first condition takes
\* every column, operator, value and connector; a further one compares the
\* text column with a value that is empty or not and is followed by AND.
FirstConditions(last) ==
    [column : ColumnNames, operator : Operators, value : FilterValues,
     logic : IF last THEN {""} ELSE {"AND", "OR"}]

FurtherConditions(last) ==
    [column : {"ticker"}, operator : {"="}, value : {<<>>, <<"a">>},
     logic : IF last THEN {""} ELSE {"AND"}]

\* Lines 728-731: every condition but the last has a connector.
RECURSIVE FurtherWidgets(_, _)
FurtherWidgets(i, n) ==
    IF i > n
        THEN {<<>>}
        ELSE {<<f>> \o rest : f \in FurtherConditions(i = n),
                              rest \in FurtherWidgets(i + 1, n)}

FilterWidgets(counts) ==
    UNION {{<<f>> \o rest : f \in FirstConditions(n = 1),
                            rest \in FurtherWidgets(2, n)}
           : n \in counts}

\* A run of the page without a click on "Apply Filters" (line 767 False).
run_filters ==
    /\ where_clauses' = where_of(filters)
    /\ filter_query' = None
    /\ UNCHANGED filters
    /\ UNCHANGED <<dbVars, driveVars, connVars, sessionVars>>

\* The run a click on "Apply Filters" starts (lines 767-781).
apply_filters ==
    /\ where_clauses' = where_of(filters)
    /\ filter_query' = Some(filter_query_of(where_of(filters)))
    /\ UNCHANGED filters
    /\ UNCHANGED <<dbVars, driveVars, connVars, sessionVars>>

InitFilter ==
    /\ localFile = BrokenFile
    /\ InitManager
    /\ QuietDrive
    /\ QuietConn
    /\ QuietSession
    /\ filters \in FilterWidgets(FilterCounts)
    /\ where_clauses = <<>>
    /\ filter_query = None

NextFilter ==
    \/ run_filters
    \/ apply_filters

SpecFilter == InitFilter /\ [][NextFilter]_vars

\* The first condition of the page and its column's data type.
FirstFilter == filters[1]

FirstType ==
    LET i == CHOOSE j \in DOMAIN df_cols_filter :
                 df_cols_filter[j].COLUMN_NAME = FirstFilter.column
    IN  df_cols_filter[i].DATA_TYPE

\* The tab has run with a value typed into the first condition: the first
\* entry of where_clauses is that condition's clause.
FirstClauseBuilt == FirstFilter.value # <<>> /\ where_clauses # <<>>

\* The per-type rule for one value: bare for a numeric column, cast to DATE
\* for a date column, in single quotes for any other column.
PlacedByType(t, e) ==
    IF t \in NumericTypes
        THEN e
        ELSE IF t \in DateTypes
            THEN <<"CAST(", Quote>> \o e \o <<Quote, " AS DATE)">>
            ELSE <<Quote>> \o e \o <<Quote>>

TrimmedElements(v) ==
    LET parts == split(v) IN [i \in DOMAIN parts |-> strip(parts[i])]

ColumnByType(t, c, op) ==
    IF t \in DateTypes /\ op \notin {"LIKE", "IN"}
        THEN <<"CAST(", "[", c, "]", " AS DATE)">>
        ELSE <<"[", c, "]">>

ValueByType(t, op, v) ==
    IF op = "LIKE"
        THEN <<Quote, "%">> \o v \o <<"%", Quote>>
        ELSE IF op = "IN"
            THEN LET es == TrimmedElements(v)
                 IN  <<"(">>
                         \o join([i \in DOMAIN es |-> PlacedByType(t, es[i])],
                                 <<", ">>)
                         \o <<")">>
            ELSE PlacedByType(t, v)

\* C9: a filter value is placed into the SQL text by the column's data type:
\* unquoted for a numeric column, column and value both cast to DATE for a date
\* column, in single quotes for any other column; LIKE wraps the value as
\* '%value%' whatever the type, and IN splits the value on commas and places
\* each trimmed element by the same per-type rule.
ValuePlacedByType ==
    FirstClauseBuilt =>
        where_clauses[1] =
            ColumnByType(FirstType, FirstFilter.column, FirstFilter.operator)
                \o <<" ", FirstFilter.operator, " ">>
                \o ValueByType(FirstType, FirstFilter.operator,
                               FirstFilter.value)

\* An IN list on a numeric column whose elements had to be split and trimmed.
NumericInListBuilt ==
    /\ FirstClauseBuilt
    /\ FirstFilter.operator = "IN"
    /\ FirstType \in NumericTypes
    /\ FirstFilter.value = <<"a", ",", " ">>
           \/ FirstFilter.value = <<" ", "a">>
           \/ FirstFilter.value = <<"a", ",">>

\* The query text with a hole ("?") for each piece of the first value, and
\* the text it becomes when the holes are filled in.
Hole == <<"?">>

RECURSIVE Fill(_, _)
Fill(text, es) ==
    IF text = <<>>
        THEN <<>>
        ELSE IF Head(text) = "?" /\ es # <<>>
            THEN Head(es) \o Fill(Tail(text), Tail(es))
            ELSE <<Head(text)>> \o Fill(Tail(text), es)

QueryWithHoles(n) ==
    filter_query_of(where_of(
        [filters EXCEPT ![1].value = join([i \in 1 .. n |-> Hole], <<",">>)]))

Executed == filter_query # None /\ FirstFilter.value # <<>>

\* C10 as stated: whatever the operator, the typed value stands in the
\* executed SQL string verbatim, in one piece.
ValueReachesQueryVerbatim ==
    Executed =>
        filter_query[1] = Fill(QueryWithHoles(1), <<FirstFilter.value>>)

\* C10: the typed value reaches the executed SQL string with no escaping and
\* no parameter binding: in one piece and verbatim under every operator but
\* IN, and under IN split on commas with each element, trimmed of the
\* whitespace around it, standing verbatim in the list.
ValueReachesQueryUnescaped ==
    Executed =>
        LET es == IF FirstFilter.operator = "IN"
                      THEN TrimmedElements(FirstFilter.value)
                      ELSE <<FirstFilter.value>>
        IN  filter_query[1] = Fill(QueryWithHoles(Len(es)), es)

\* What the server's lexer makes of a query text: a string literal ('' inside
\* it is an escaped quote) is one token, an unterminated one another, and
\* everything outside literals is kept.
RECURSIVE Lex(_, _)
Lex(q, inString) ==
    IF q = <<>>
        THEN IF inString THEN <<"OPEN">> ELSE <<>>
        ELSE IF ~inString
            THEN IF Head(q) = Quote
                     THEN Lex(Tail(q), TRUE)
                     ELSE <<Head(q)>> \o Lex(Tail(q), FALSE)
            ELSE IF Head(q) # Quote
                THEN Lex(Tail(q), TRUE)
                ELSE IF Len(q) >= 2 /\ q[2] = Quote
                    THEN Lex(Tail(Tail(q)), TRUE)
                    ELSE <<"STR">> \o Lex(Tail(q), FALSE)

Structure(q) == Lex(q, FALSE)

\* A quoted comparison was executed whose value holds a single quote, and a
\* value that differs from it only after that quote gives a query of another
\* structure.
InjectionChangesStructure ==
    /\ Executed
    /\ FirstType \notin NumericTypes \cup DateTypes
    /\ FirstFilter.operator = "="
    /\ \E i \in DOMAIN FirstFilter.value :
           /\ FirstFilter.value[i] = Quote
           /\ \E other \in FilterValues :
                  /\ Len(other) >= i
                  /\ SubSeq(other, 1, i) = SubSeq(FirstFilter.value, 1, i)
                  /\ Structure(filter_query_of(where_of(
                         [filters EXCEPT ![1].value = other])))
                       # Structure(filter_query[1])

IsConnector(c) == c \in {<<"AND">>, <<"OR">>}

\* C17: whatever the number of conditions and whichever of their values are
\* empty, where_clauses is empty or alternates condition, connector,
\* condition, ..., beginning and ending with a condition: no connector comes
\* first or last and no two stand in a row.
WhereClausesAlternate ==
    \/ where_clauses = <<>>
    \/ /\ Len(where_clauses) % 2 = 1
       /\ \A i \in 1 .. Len(where_clauses) :
              IsConnector(where_clauses[i]) <=> (i % 2 = 0)

=============================================================================
